---- MODULE Spec2Model ----
(***************************************************************************)
(* A model of the sunny_milk CD-ROM control adapter: the operation         *)
(* registry (constants.rs), the address converter (structures.rs), the     *)
(* drive controller CDRom (platform/linux.rs) and the track enumeration    *)
(* of main (main.rs).  The device behind the ioctl interface is the        *)
(* environment: every control call returns one of a set of results.        *)
(***************************************************************************)
EXTENDS Integers, Sequences, FiniteSets, TLC

VARIABLES
    pc,        \* "idle": between operations; "ioctl": blocked in the device call;
               \* "done": the operation has returned result; "aborted": panicked
    op,        \* the current (or last) invocation: its name and its arguments
    inflight,  \* the device control calls issued and not yet returned
    ncalls,    \* the number of device control calls issued by the current invocation
    result,    \* what the last invocation returned
    reply,     \* what the device returned to the last control call of the invocation
    buf,       \* the caller's byte buffer handed to read_raw_into
    mainpc,    \* the position of main in its track enumeration
    header,    \* main: the TocHeader it obtained
    idx,       \* main: the loop variable i
    queried,   \* main: the track indices passed to toc_entry so far
    cdrom,     \* "live": the CDRom value exists; "dropped": it has gone out of scope
    drive_fd   \* the descriptor in CDRom::drive_fd: whether it is open, and the closes of it

vars ==
    <<pc, op, inflight, ncalls, result, reply, buf, mainpc, header, idx, queried,
      cdrom, drive_fd>>

(***************************************************************************)
(* Bounds of the input sets.                                               *)
(***************************************************************************)
MaxLba == 3
MaxMinute == 1
MaxSecond == 2
MaxFrames == 76
MaxTrack == 11
MaxRet == 5

(***************************************************************************)
(* constants.rs                                                            *)
(***************************************************************************)
EDRIVE_CANT_DO_THIS == 95
IOC_BYTE == 83
CD_SECS == 60
CD_FRAMES == 75
CD_MSF_OFFSET == 150
CD_FRAMESIZE_RAW == 2352

\* The OS failure codes the model's device produces (nix::errno::Errno).
EPERM == 1
EIO == 5
EBUSY == 16
ENOSYS == 38
EOPNOTSUPP == 95
ENOMEDIUM == 123

\* AddressType
CDROM_LBA == 1
CDROM_MSF == 2

\* enum Operation: the one-byte value of every operation.
OperationValue ==
    "Pause" :> 1 @@ "Resume" :> 2 @@ "PlayMsf" :> 3 @@ "PlayTrackIndex" :> 4 @@
    "ReadTocHeader" :> 5 @@ "ReadTocEntry" :> 6 @@ "Stop" :> 7 @@ "Start" :> 8 @@
    "Eject" :> 9 @@ "VolumeControl" :> 10 @@ "SubChannel" :> 11 @@ "ReadMode2" :> 12 @@
    "ReadMode1" :> 13 @@ "ReadAudio" :> 14 @@ "EjectSoftware" :> 15 @@
    "MultiSession" :> 16 @@ "GetMcn" :> 17 @@ "Reset" :> 18 @@ "VolumeRead" :> 19 @@
    "ReadRaw" :> 20 @@ "ReadCooked" :> 21 @@ "Seek" :> 22 @@ "PlayBlock" :> 23 @@
    "ReadAll" :> 24 @@ "GetSpindown" :> 29 @@ "SetSpindown" :> 30 @@
    "CloseTray" :> 25 @@ "SetOptions" :> 32 @@ "ClearOptions" :> 33 @@
    "SelectSpeed" :> 34 @@ "SelectDisk" :> 35 @@ "MediaChanged" :> 37 @@
    "DriveStatus" :> 38 @@ "DiscStatus" :> 39 @@ "ChangerNslots" :> 40 @@
    "LockDoor" :> 41 @@ "Debug" :> 48 @@ "GetCapability" :> 49 @@
    "AudioBufferSize" :> 130 @@ "DvdReadStructure" :> 144 @@
    "DvdWriteStructure" :> 145 @@ "DvdAuthenticate" :> 146 @@ "SendPacket" :> 147 @@
    "NextWritable" :> 148 @@ "LastWritten" :> 149 @@ "TimedMediaChange" :> 150

Operation == DOMAIN OperationValue

\* The number of values of a u8.
U8 == 256

\* `v as u8`: the low eight bits.
AsU8(v) == v % U8

\* Rust's `/` and `%` on i32: the quotient truncates toward zero and the
\* remainder takes the sign of the dividend.
TruncDiv(a, b) == IF a >= 0 THEN a \div b ELSE -((-a) \div b)
TruncRem(a, b) == a - b * TruncDiv(a, b)

(***************************************************************************)
(* Return values.  kind is "Ok", "Err", "Some", "None", "Value" (a plain   *)
(* value) or "Panic"; err is the CDRomError variant (or the panic          *)
(* message); a and b are its payload; val is the value carried.            *)
(***************************************************************************)
NoVal == [none |-> TRUE]
Ok(v) == [kind |-> "Ok", err |-> "", a |-> 0, b |-> 0, val |-> v]
Err(e, x, y) == [kind |-> "Err", err |-> e, a |-> x, b |-> y, val |-> NoVal]
Some(v) == [kind |-> "Some", err |-> "", a |-> 0, b |-> 0, val |-> v]
None == [kind |-> "None", err |-> "", a |-> 0, b |-> 0, val |-> NoVal]
Value(v) == [kind |-> "Value", err |-> "", a |-> 0, b |-> 0, val |-> v]
Panic(msg) == [kind |-> "Panic", err |-> msg, a |-> 0, b |-> 0, val |-> NoVal]

\* to_u8 of the derived ToPrimitive: the discriminant when it fits in a byte.
to_u8(o) == IF OperationValue[o] \in 0..(U8 - 1) THEN Some(OperationValue[o]) ELSE None

\* op_to_ioctl: ((IOC_BYTE as u64) << 8) + value as u64, or a panic of unwrap.
\* Both operands are bytes, so the u64 sum is below 2^16 and never wraps.
op_to_ioctl_noshift(o) ==
    IF to_u8(o).kind = "None" THEN Panic("unwrap")
    ELSE Ok(IOC_BYTE + to_u8(o).val)

op_to_ioctl_low_nibble(o) ==
    IF to_u8(o).kind = "None" THEN Panic("unwrap")
    ELSE Ok((IOC_BYTE * 2^8) + (to_u8(o).val % 16))

op_to_ioctl(o) ==
    IF to_u8(o).kind = "None" THEN Panic("unwrap")
    ELSE Ok((IOC_BYTE * 2^8) + to_u8(o).val)

(***************************************************************************)
(* structures.rs: Msf and Addr                                             *)
(***************************************************************************)
MsfOf(m, s, f) == [minute |-> m, second |-> s, frame |-> f]
AddrLba(x) == [tag |-> "Lba", lba |-> x, msf |-> MsfOf(0, 0, 0)]
AddrMsf(m) == [tag |-> "Msf", lba |-> 0, msf |-> m]

to_lba_nooffset(msf) ==
    ((msf.minute * CD_SECS) + msf.second) * CD_FRAMES + msf.frame

to_lba(msf) ==
    (((msf.minute * CD_SECS) + msf.second) * CD_FRAMES + msf.frame) - CD_MSF_OFFSET

from_lba_plain_seconds(lba) ==
    LET offset_a == lba + CD_MSF_OFFSET
    IN  [minute |-> AsU8(TruncDiv(TruncDiv(offset_a, CD_FRAMES), 60)),
         second |-> AsU8(TruncDiv(offset_a, CD_FRAMES)),
         frame  |-> AsU8(TruncRem(offset_a, 75))]

from_lba(lba) ==
    LET offset_a == lba + CD_MSF_OFFSET
    IN  [minute |-> AsU8(TruncDiv(TruncDiv(offset_a, CD_FRAMES), 60)),
         second |-> AsU8(TruncRem(TruncDiv(offset_a, CD_FRAMES), 60)),
         frame  |-> AsU8(TruncRem(offset_a, 75))]

invalid(msf) == IF msf.minute = 0 /\ msf.second < 2 THEN TRUE ELSE FALSE

(***************************************************************************)
(* Inputs of the callers and results of the device.                        *)
(***************************************************************************)
\* The first logical address whose minute no longer fits in a byte.
MinuteSpan == U8 * CD_SECS * CD_FRAMES
LbaInputs ==
    ((0 - CD_MSF_OFFSET - 2)..(1 - CD_MSF_OFFSET)) \cup ((0 - 2)..MaxLba)
    \cup {74, 75, 4349, 4350, MinuteSpan - CD_MSF_OFFSET - 1, MinuteSpan - CD_MSF_OFFSET}
MsfInputs ==
    {MsfOf(m, s, f) : m \in (0..MaxMinute) \cup {U8 - 1},
                      s \in (0..MaxSecond) \cup {59},
                      f \in {0, 74}}
AddrInputs == {AddrLba(x) : x \in LbaInputs} \cup {AddrMsf(m) : m \in MsfInputs}
FrameInputs == {0, 1, 10} \cup (74..MaxFrames)
SampleSlack == {0 - 1, 0, 1}
RawBufLens == {0, 2, CD_FRAMESIZE_RAW - 1, CD_FRAMESIZE_RAW, CD_FRAMESIZE_RAW + 1}
TrackInputs == 0..MaxTrack
FirstTrackInputs == 0..2
FormatInputs == {CDROM_LBA, CDROM_MSF}

\* What a device control call can return: Ok(v) or Err(errno).
RetVals == (0..MaxRet) \cup {EBUSY, ENOSYS, EDRIVE_CANT_DO_THIS} \cup (100..106)
Errnos == {EPERM, EIO, EBUSY, ENOSYS, EOPNOTSUPP, ENOMEDIUM}
Failures == {[ok |-> FALSE, v |-> e] : e \in Errnos}
IntResponses == {[ok |-> TRUE, v |-> v] : v \in RetVals} \cup Failures

\* The bytes the kernel writes into the structure passed to a call.
AdrCtrlBytes == {0, 20, 165, 255}
AllBytes == 0..(U8 - 1)
FormatBytes == {CDROM_LBA, CDROM_MSF, 3}
\* The four bytes of an AddrUnion, lowest address first.
AddrWords == {<<0, 0, 0, 0>>, <<254, 16, 0, 0>>, <<2, 3, 4, 0>>, <<255, 255, 255, 255>>}
SectorHeads == {<<0, 255, 255>>, <<1, 2, 3>>}
HeaderResponses ==
    {[ok |-> TRUE, v |-> 0, first_track |-> f, last_track |-> l] :
        f \in FirstTrackInputs, l \in TrackInputs} \cup Failures
EntryResponses ==
    {[ok |-> TRUE, v |-> 0, adr_ctrl |-> b, format |-> d, addr |-> w] :
        b \in AdrCtrlBytes, d \in FormatBytes, w \in AddrWords \ {<<254, 16, 0, 0>>}} \cup Failures
SubChannelResponses ==
    {[ok |-> TRUE, v |-> 0, format |-> d, audiostatus |-> 17, adr_ctrl |-> b,
      trk |-> 1, ind |-> 1, absaddr |-> w, reladdr |-> x] :
        b \in {20, 165}, d \in FormatBytes, w \in {<<254, 16, 0, 0>>, <<2, 3, 4, 0>>},
        x \in {<<0, 0, 0, 0>>, <<255, 255, 255, 255>>}}
    \cup {[ok |-> TRUE, v |-> 0, format |-> CDROM_MSF, audiostatus |-> 17, adr_ctrl |-> b,
           trk |-> 1, ind |-> 1, absaddr |-> <<2, 3, 4, 0>>, reladdr |-> <<0, 0, 0, 0>>] :
              b \in AllBytes}
    \cup Failures
McnResponses == {[ok |-> TRUE, v |-> 0, mcn |-> m] : m \in {"", "0123456789012"}} \cup Failures
RawResponses == {[ok |-> TRUE, v |-> 0, data |-> d] : d \in SectorHeads} \cup Failures

\* The two views of AddrUnion over its four bytes: lba is the little-endian
\* two's-complement c_int, msf the first three bytes.
union_lba(w) ==
    w[1] + U8 * w[2] + U8 * U8 * w[3]
    + U8 * U8 * U8 * (IF w[4] >= 128 THEN w[4] - U8 ELSE w[4])
union_msf(w) == MsfOf(w[1], w[2], w[3])

NoArgs == [name |-> "", addr |-> AddrLba(0), frames |-> 0, buflen |-> 0,
           locked |-> FALSE, index |-> 0, format |-> 0, operation |-> ""]
NoBuf == [len |-> 0, head |-> <<>>]
Pending == [kind |-> "Pending", err |-> "", a |-> 0, b |-> 0, val |-> NoVal]
NoHeader == [first_track |-> 0, last_track |-> 0]
NoReply == [ok |-> FALSE, v |-> 0]

\* The caller's buffer before the call: n bytes of 0xAA.
FreshBuf(n) == [len |-> n, head |-> [i \in 1..(IF n < 3 THEN n ELSE 3) |-> 170]]

Init ==
    /\ pc = "idle"
    /\ op = NoArgs
    /\ inflight = <<>>
    /\ ncalls = 0
    /\ result = Pending
    /\ reply = NoReply
    /\ buf = NoBuf
    /\ mainpc = "off"
    /\ header = NoHeader
    /\ idx = 0
    /\ queried = <<>>
    /\ cdrom = "live"
    /\ drive_fd = [open |-> TRUE, closes |-> 0]

MainVars == <<mainpc, header, idx, queried>>
HandleVars == <<cdrom, drive_fd>>

\* A caller of the library may start an operation.
CallerReady == pc = "idle" /\ mainpc = "off" /\ cdrom = "live"

\* The operation issues its device control call and blocks in it.
Issue(args, o, a) ==
    /\ op' = args
    /\ inflight' = Append(inflight, [code |-> op_to_ioctl(o).val, arg |-> a])
    /\ ncalls' = 1
    /\ pc' = "ioctl"
    /\ result' = Pending
    /\ reply' = NoReply
    /\ UNCHANGED HandleVars

\* The operation ends before any device control call.
Reject(args, res) ==
    /\ op' = args
    /\ inflight' = inflight
    /\ ncalls' = 0
    /\ pc' = IF res.kind = "Panic" THEN "aborted" ELSE "done"
    /\ result' = res
    /\ reply' = NoReply
    /\ UNCHANGED HandleVars

\* The device control call has returned and the operation ends with res.
Complete(r, res) ==
    /\ reply' = r
    /\ inflight' = Tail(inflight)
    /\ pc' = IF res.kind = "Panic" THEN "aborted" ELSE "done"
    /\ result' = res
    /\ UNCHANGED <<op, ncalls, HandleVars>>

Blocked(name) == pc = "ioctl" /\ op.name = name /\ inflight # <<>>

\* The caller has taken the returned value and is ready for its next call.
CallerContinues ==
    /\ pc = "done" /\ mainpc = "off"
    /\ pc' = "idle"
    /\ op' = NoArgs
    /\ ncalls' = 0
    /\ result' = Pending
    /\ reply' = NoReply
    /\ buf' = NoBuf
    /\ UNCHANGED <<inflight, MainVars, HandleVars>>

\* The CDRom value goes out of scope: its caller is done with it, main
\* returns, or a panic unwinds.  CDRom has no Drop implementation and
\* drive_fd is a RawFd taken with into_raw_fd, so nothing closes it.
DropCDRom ==
    /\ cdrom = "live"
    /\ (pc = "idle" /\ mainpc = "off") \/ mainpc = "done" \/ pc = "aborted"
    /\ cdrom' = "dropped"
    /\ drive_fd' = drive_fd
    /\ UNCHANGED <<pc, op, inflight, ncalls, result, reply, buf, MainVars>>

(***************************************************************************)
(* The pure functions, applied by a caller.                                *)
(***************************************************************************)
ControlCode(o) ==
    /\ CallerReady
    /\ Reject([NoArgs EXCEPT !.name = "op_to_ioctl", !.operation = o], op_to_ioctl(o))
    /\ UNCHANGED <<buf, MainVars>>

FromLba(x) ==
    /\ CallerReady
    /\ Reject([NoArgs EXCEPT !.name = "from_lba", !.addr = AddrLba(x)], Value(from_lba(x)))
    /\ UNCHANGED <<buf, MainVars>>

ToLba(m) ==
    /\ CallerReady
    /\ Reject([NoArgs EXCEPT !.name = "to_lba", !.addr = AddrMsf(m)], Value(to_lba(m)))
    /\ UNCHANGED <<buf, MainVars>>

Invalid(m) ==
    /\ CallerReady
    /\ Reject([NoArgs EXCEPT !.name = "invalid", !.addr = AddrMsf(m)], Value(invalid(m)))
    /\ UNCHANGED <<buf, MainVars>>

\* to_lba applied to the time code from_lba has just returned.
RoundTrip ==
    /\ pc = "done" /\ mainpc = "off" /\ op.name = "from_lba"
    /\ Reject([op EXCEPT !.name = "round_trip"], Value(to_lba(result.val)))
    /\ UNCHANGED <<buf, MainVars>>

(***************************************************************************)
(* platform/linux.rs: the operations of CDRom.  Each operation is a Call   *)
(* action (its code up to the device control call) and a Return action     *)
(* (its code after the call), taking the result r of the device.           *)
(***************************************************************************)
\* Status::from_i32 and DiscType::from_i32 of the derived FromPrimitive.
Status_from_i32_any(v) == Some(v)
Status_from_i32(v) == IF v \in 0..4 THEN Some(v) ELSE None
DiscType_from_i32(v) == IF v \in {0, 100, 101, 102, 103, 104, 105} THEN Some(v) ELSE None

\* The Addr a response carries, read through the union by the returned format.
decode_addr_lenient(format, w) ==
    IF format = CDROM_LBA THEN Ok(AddrLba(union_lba(w)))
    ELSE Ok(AddrMsf(union_msf(w)))

decode_addr(format, w) ==
    IF format = CDROM_LBA THEN Ok(AddrLba(union_lba(w)))
    ELSE IF format = CDROM_MSF THEN Ok(AddrMsf(union_msf(w)))
    ELSE Panic("Impossible value returned!")

\* ---- status
StatusCall ==
    /\ CallerReady
    /\ Issue([NoArgs EXCEPT !.name = "status"], "DriveStatus", NoVal)
    /\ buf' = NoBuf
    /\ UNCHANGED MainVars

status_result(r) == IF r.ok THEN Status_from_i32(r.v) ELSE Panic("unwrap")

StatusReturn(r) ==
    /\ Blocked("status")
    /\ Complete(r, status_result(r))
    /\ UNCHANGED <<buf, MainVars>>

\* ---- disc_type
DiscTypeCall ==
    /\ CallerReady
    /\ Issue([NoArgs EXCEPT !.name = "disc_type"], "DiscStatus", NoVal)
    /\ buf' = NoBuf
    /\ UNCHANGED MainVars

disc_type_result(r) == IF r.ok THEN DiscType_from_i32(r.v) ELSE None

DiscTypeReturn(r) ==
    /\ Blocked("disc_type")
    /\ Complete(r, disc_type_result(r))
    /\ UNCHANGED <<buf, MainVars>>

\* ---- mcn
McnCall ==
    /\ CallerReady
    /\ Issue([NoArgs EXCEPT !.name = "mcn"], "GetMcn", NoVal)
    /\ buf' = NoBuf
    /\ UNCHANGED MainVars

mcn_result(r) == IF r.ok THEN Some(r.mcn) ELSE None

McnReturn(r) ==
    /\ Blocked("mcn")
    /\ Complete(r, mcn_result(r))
    /\ UNCHANGED <<buf, MainVars>>

\* ---- toc_header
toc_header_issue == Issue([NoArgs EXCEPT !.name = "toc_header"], "ReadTocHeader", NoHeader)

TocHeaderCall ==
    /\ CallerReady
    /\ toc_header_issue
    /\ buf' = NoBuf
    /\ UNCHANGED MainVars

\* The header is TocHeader::default() unless the device call wrote it.
toc_header_result(r) ==
    IF ~r.ok /\ r.v = ENOMEDIUM THEN Err("NoDisc", 0, 0)
    ELSE Ok(IF r.ok THEN [first_track |-> r.first_track, last_track |-> r.last_track]
            ELSE NoHeader)

TocHeaderReturn(r) ==
    /\ Blocked("toc_header")
    /\ Complete(r, toc_header_result(r))
    /\ UNCHANGED <<buf, MainVars>>

\* ---- toc_entry
toc_entry_issue(index, address_type) ==
    Issue([NoArgs EXCEPT !.name = "toc_entry", !.index = index, !.format = address_type],
          "ReadTocEntry",
          [track |-> index, adr_ctrl |-> 0, format |-> address_type,
           addr |-> <<0, 0, 0, 0>>])

TocEntryCall(index, address_type) ==
    /\ CallerReady
    /\ toc_entry_issue(index, address_type)
    /\ buf' = NoBuf
    /\ UNCHANGED MainVars

toc_entry_result(track, r) ==
    IF ~r.ok THEN Panic("unwrap")
    ELSE IF decode_addr(r.format, r.addr).kind = "Panic" THEN decode_addr(r.format, r.addr)
    ELSE Ok([track |-> track,
             adr |-> r.adr_ctrl \div 16,
             ctrl |-> r.adr_ctrl % 16,
             addr |-> decode_addr(r.format, r.addr).val])

TocEntryReturn(r) ==
    /\ Blocked("toc_entry")
    /\ Complete(r, toc_entry_result(Head(inflight).arg.track, r))
    /\ UNCHANGED <<buf, MainVars>>

\* ---- set_lock
SetLockCall(locked) ==
    /\ CallerReady
    /\ Issue([NoArgs EXCEPT !.name = "set_lock", !.locked = locked], "LockDoor",
             IF locked THEN 1 ELSE 0)
    /\ buf' = NoBuf
    /\ UNCHANGED MainVars

\* linux.rs does not import EDRIVE_CANT_DO_THIS, so the pattern of line 160 is
\* an identifier pattern: it binds the value and matches every Ok(v).
set_lock_result(r) ==
    IF ~r.ok THEN (IF r.v = EBUSY THEN Err("Busy", 0, 0) ELSE Err("Errno", r.v, 0))
    ELSE Err("Unsupported", 0, 0)

\* A set_lock that issues the call again when the drive is busy.
SetLockReturnRetry(r) ==
    /\ Blocked("set_lock")
    /\ IF ~r.ok /\ r.v = EBUSY
       THEN /\ inflight' = Append(Tail(inflight), Head(inflight))
            /\ ncalls' = ncalls + 1
            /\ reply' = r
            /\ UNCHANGED <<pc, op, result, HandleVars>>
       ELSE Complete(r, set_lock_result(r))
    /\ UNCHANGED <<buf, MainVars>>

SetLockReturn(r) ==
    /\ Blocked("set_lock")
    /\ Complete(r, set_lock_result(r))
    /\ UNCHANGED <<buf, MainVars>>

\* ---- eject
EjectCall ==
    /\ CallerReady
    /\ Issue([NoArgs EXCEPT !.name = "eject"], "Eject", NoVal)
    /\ buf' = NoBuf
    /\ UNCHANGED MainVars

eject_result(r) ==
    IF ~r.ok THEN Panic("unwrap")
    ELSE IF r.v = 2 THEN Err("DoorLocked", 0, 0)
    ELSE Ok(NoVal)

EjectReturn(r) ==
    /\ Blocked("eject")
    /\ Complete(r, eject_result(r))
    /\ UNCHANGED <<buf, MainVars>>

\* ---- close
CloseCall ==
    /\ CallerReady
    /\ Issue([NoArgs EXCEPT !.name = "close"], "CloseTray", NoVal)
    /\ buf' = NoBuf
    /\ UNCHANGED MainVars

close_result_busy_ignored(r) ==
    IF ~r.ok THEN Panic("unwrap")
    ELSE IF r.v = ENOSYS THEN Err("Unsupported", 0, 0)
    ELSE Ok(NoVal)

close_result(r) ==
    IF ~r.ok THEN Panic("unwrap")
    ELSE IF r.v = ENOSYS THEN Err("Unsupported", 0, 0)
    ELSE IF r.v = EBUSY THEN Err("DoorLocked", 0, 0)
    ELSE Ok(NoVal)

CloseReturn(r) ==
    /\ Blocked("close")
    /\ Complete(r, close_result(r))
    /\ UNCHANGED <<buf, MainVars>>

\* ---- subchannel
SubChannelCall ==
    /\ CallerReady
    /\ Issue([NoArgs EXCEPT !.name = "subchannel"], "SubChannel",
             [format |-> CDROM_MSF, audiostatus |-> 0, adr_ctrl |-> 0, trk |-> 0,
              ind |-> 0, absaddr |-> <<0, 0, 0, 0>>, reladdr |-> <<0, 0, 0, 0>>])
    /\ buf' = NoBuf
    /\ UNCHANGED MainVars

subchannel_result_swapped(r) ==
    IF ~r.ok THEN Panic("unwrap")
    ELSE IF decode_addr(r.format, r.absaddr).kind = "Panic" THEN decode_addr(r.format, r.absaddr)
    ELSE IF decode_addr(r.format, r.reladdr).kind = "Panic" THEN decode_addr(r.format, r.reladdr)
    ELSE Ok([audiostatus |-> r.audiostatus,
             adr |-> r.adr_ctrl % 16,
             ctrl |-> r.adr_ctrl \div 16,
             trk |-> r.trk,
             ind |-> r.ind,
             absaddr |-> decode_addr(r.format, r.absaddr).val,
             reladdr |-> decode_addr(r.format, r.reladdr).val])

subchannel_result(r) ==
    IF ~r.ok THEN Panic("unwrap")
    ELSE IF decode_addr(r.format, r.absaddr).kind = "Panic" THEN decode_addr(r.format, r.absaddr)
    ELSE IF decode_addr(r.format, r.reladdr).kind = "Panic" THEN decode_addr(r.format, r.reladdr)
    ELSE Ok([audiostatus |-> r.audiostatus,
             adr |-> r.adr_ctrl \div 16,
             ctrl |-> r.adr_ctrl % 16,
             trk |-> r.trk,
             ind |-> r.ind,
             absaddr |-> decode_addr(r.format, r.absaddr).val,
             reladdr |-> decode_addr(r.format, r.reladdr).val])

SubChannelReturn(r) ==
    /\ Blocked("subchannel")
    /\ Complete(r, subchannel_result(r))
    /\ UNCHANGED <<buf, MainVars>>

\* ---- read_audio_into and read_audio
\* Errno::from_raw: the errno of that number, UnknownErrno (0) for any other.
Errno_from_raw(v) == IF v \in 1..133 THEN v ELSE 0

\* The samples read_audio_into needs for that many frames.
samples_needed(frames) == (frames * CD_FRAMESIZE_RAW) \div 2

AudioBufLens(frames) == {n \in {samples_needed(frames) + d : d \in SampleSlack} : n >= 0}

\* The local checks of read_audio_into: a panic, or Pending to go on to the call.
read_audio_into_check_upto76(address, frames, buflen) ==
    IF address.tag = "Msf" /\ address.msf.minute = 0 /\ address.msf.second < 2
    THEN Panic("MSF second cannot be less than 2!")
    ELSE IF frames < 1 \/ frames > 76 THEN Panic("Invalid number of frames!")
    ELSE IF buflen < samples_needed(frames) THEN Panic("Buffer is too small!")
    ELSE Pending

read_audio_into_check(address, frames, buflen) ==
    IF address.tag = "Msf" /\ address.msf.minute = 0 /\ address.msf.second < 2
    THEN Panic("MSF second cannot be less than 2!")
    ELSE IF frames < 1 \/ frames > 75 THEN Panic("Invalid number of frames!")
    ELSE IF buflen < samples_needed(frames) THEN Panic("Buffer is too small!")
    ELSE Pending

read_audio_into_body(args) ==
    IF read_audio_into_check(args.addr, args.frames, args.buflen).kind = "Panic"
    THEN Reject(args, read_audio_into_check(args.addr, args.frames, args.buflen))
    ELSE Issue(args, "ReadAudio",
               [addr |-> args.addr,
                addr_format |-> IF args.addr.tag = "Lba" THEN CDROM_LBA ELSE CDROM_MSF,
                nframes |-> args.frames])

ReadAudioIntoCall(address, frames, buflen) ==
    /\ CallerReady
    /\ read_audio_into_body([NoArgs EXCEPT !.name = "read_audio_into", !.addr = address,
                                           !.frames = frames, !.buflen = buflen])
    /\ buf' = NoBuf
    /\ UNCHANGED MainVars

read_audio_into_result_status_ignored(r) ==
    IF ~r.ok THEN Err("Errno", r.v, 0)
    ELSE Ok(NoVal)

read_audio_into_result(r) ==
    IF ~r.ok THEN Err("Errno", r.v, 0)
    ELSE IF r.v # 0 THEN Err("Errno", Errno_from_raw(r.v), 0)
    ELSE Ok(NoVal)

ReadAudioIntoReturn(r) ==
    /\ Blocked("read_audio_into")
    /\ Complete(r, read_audio_into_result(r))
    /\ UNCHANGED <<buf, MainVars>>

\* read_audio allocates the buffer and calls read_audio_into.
ReadAudioCall(address, frames) ==
    /\ CallerReady
    /\ read_audio_into_body([NoArgs EXCEPT !.name = "read_audio", !.addr = address,
                                           !.frames = frames,
                                           !.buflen = samples_needed(frames)])
    /\ buf' = NoBuf
    /\ UNCHANGED MainVars

read_audio_result(r) ==
    IF read_audio_into_result(r).kind = "Err" THEN read_audio_into_result(r)
    ELSE Ok([len |-> op.buflen])

ReadAudioReturn(r) ==
    /\ Blocked("read_audio")
    /\ Complete(r, read_audio_result(r))
    /\ UNCHANGED <<buf, MainVars>>

\* ---- read_raw_into
\* The time code read_raw_into seeks to.
raw_address(address) == IF address.tag = "Lba" THEN from_lba(address.lba) ELSE address.msf

read_raw_into_check_unconverted(address, buflen) ==
    IF address.tag = "Msf" /\ invalid(address.msf) THEN Err("InvalidAddress", 0, 0)
    ELSE IF buflen < CD_FRAMESIZE_RAW THEN Err("InvalidBufferSize", CD_FRAMESIZE_RAW, buflen)
    ELSE Pending

\* The local checks of read_raw_into: an error, or Pending to go on to the call.
read_raw_into_check(address, buflen) ==
    IF invalid(raw_address(address)) THEN Err("InvalidAddress", 0, 0)
    ELSE IF buflen < CD_FRAMESIZE_RAW THEN Err("InvalidBufferSize", CD_FRAMESIZE_RAW, buflen)
    ELSE Pending

\* buf[0], buf[1], buf[2] = minute, second, frame.
seek_head(address) ==
    <<raw_address(address).minute, raw_address(address).second, raw_address(address).frame>>

ReadRawIntoCall_write_first(address, buflen) ==
    /\ CallerReady
    /\ LET args == [NoArgs EXCEPT !.name = "read_raw_into", !.addr = address, !.buflen = buflen]
       IN  IF read_raw_into_check(address, buflen).kind = "Err"
           THEN /\ Reject(args, read_raw_into_check(address, buflen))
                /\ buf' = IF buflen >= 3 THEN [len |-> buflen, head |-> seek_head(address)]
                          ELSE FreshBuf(buflen)
           ELSE /\ Issue(args, "ReadRaw", [len |-> buflen, head |-> seek_head(address)])
                /\ buf' = [len |-> buflen, head |-> seek_head(address)]
    /\ UNCHANGED MainVars

ReadRawIntoCall(address, buflen) ==
    /\ CallerReady
    /\ LET args == [NoArgs EXCEPT !.name = "read_raw_into", !.addr = address, !.buflen = buflen]
       IN  IF read_raw_into_check(address, buflen).kind = "Err"
           THEN /\ Reject(args, read_raw_into_check(address, buflen))
                /\ buf' = FreshBuf(buflen)
           ELSE /\ Issue(args, "ReadRaw", [len |-> buflen, head |-> seek_head(address)])
                /\ buf' = [len |-> buflen, head |-> seek_head(address)]
    /\ UNCHANGED MainVars

read_raw_into_result(r) == IF ~r.ok THEN Panic("unwrap") ELSE Ok(NoVal)

ReadRawIntoReturn(r) ==
    /\ Blocked("read_raw_into")
    /\ Complete(r, read_raw_into_result(r))
    /\ buf' = IF r.ok THEN [buf EXCEPT !.head = r.data] ELSE buf
    /\ UNCHANGED MainVars

\* ---- read_raw_into of main.rs, the copy of CDRom the binary is built with
\* Its only local check is of the address; the length of buf is not looked at.
main_rs_read_raw_into_check(address, buflen) ==
    IF invalid(raw_address(address)) THEN Err("InvalidAddress", 0, 0)
    ELSE Pending

\* The argument is a RawResult on the stack holding the time code; buf itself
\* is not passed and stays as the caller gave it.
MainRsReadRawIntoCall(address, buflen) ==
    /\ CallerReady
    /\ LET args == [NoArgs EXCEPT !.name = "main_rs_read_raw_into", !.addr = address,
                                  !.buflen = buflen]
       IN  IF main_rs_read_raw_into_check(address, buflen).kind = "Err"
           THEN Reject(args, main_rs_read_raw_into_check(address, buflen))
           ELSE Issue(args, "ReadRaw", [cdrom_msf |-> raw_address(address)])
    /\ buf' = FreshBuf(buflen)
    /\ UNCHANGED MainVars

\* unwrap of the call's result.  A call that succeeded has written a raw
\* frame over the RawResult, which is smaller than one: the function then
\* returns or the process crashes, whichever the build produces.
main_rs_read_raw_into_result(r, survives) ==
    IF ~r.ok THEN Panic("unwrap")
    ELSE IF survives THEN Ok(NoVal)
    ELSE Panic("stack overwritten")

MainRsReadRawIntoReturn(r, survives) ==
    /\ Blocked("main_rs_read_raw_into")
    /\ Complete(r, main_rs_read_raw_into_result(r, survives))
    /\ UNCHANGED <<buf, MainVars>>

(***************************************************************************)
(* main.rs: the track enumeration of main (lines 56 to 75).                *)
(***************************************************************************)
\* let header = cd_rom.toc_header()
MainTocHeader ==
    /\ CallerReady
    /\ toc_header_issue
    /\ buf' = NoBuf
    /\ mainpc' = "header"
    /\ UNCHANGED <<header, idx, queried>>

\* .unwrap(), and the range first_track..last_track starts
MainUnwrap ==
    /\ mainpc = "header" /\ pc = "done"
    /\ IF result.kind = "Err"
       THEN /\ pc' = "aborted"
            /\ op' = [NoArgs EXCEPT !.name = "main"]
            /\ result' = Panic("unwrap")
            /\ UNCHANGED <<mainpc, header, idx>>
       ELSE /\ header' = result.val
            /\ idx' = result.val.first_track
            /\ mainpc' = "loop"
            /\ pc' = "idle"
            /\ UNCHANGED <<op, result>>
    /\ UNCHANGED <<inflight, ncalls, reply, buf, queried, HandleVars>>

\* The tracks the loop of main visits next: i while i < last_track.
loop_continues_inclusive(i, h) == i <= h.last_track

loop_continues(i, h) == i < h.last_track

\* let entry = cd_rom.toc_entry(i, AddressType::Msf)
MainTocEntry ==
    /\ mainpc = "loop" /\ pc = "idle"
    /\ loop_continues(idx, header)
    /\ toc_entry_issue(idx, CDROM_MSF)
    /\ queried' = Append(queried, idx)
    /\ mainpc' = "entry"
    /\ UNCHANGED <<buf, header, idx>>

\* The entry is printed and the range steps to the next index.
MainNext ==
    /\ mainpc = "entry" /\ pc = "done"
    /\ idx' = idx + 1
    /\ mainpc' = "loop"
    /\ pc' = "idle"
    /\ op' = NoArgs
    /\ ncalls' = 0
    /\ result' = Pending
    /\ reply' = NoReply
    /\ UNCHANGED <<inflight, buf, header, queried, HandleVars>>

\* The range is exhausted and main returns.
MainExit ==
    /\ mainpc = "loop" /\ pc = "idle"
    /\ ~loop_continues(idx, header)
    /\ mainpc' = "done"
    /\ UNCHANGED <<pc, op, inflight, ncalls, result, reply, buf, header, idx, queried,
                   HandleVars>>

(***************************************************************************)
(* The specification.                                                      *)
(***************************************************************************)
Next ==
    \/ CallerContinues
    \/ DropCDRom
    \/ \E o \in Operation : ControlCode(o)
    \/ \E x \in LbaInputs : FromLba(x)
    \/ \E m \in MsfInputs : ToLba(m)
    \/ RoundTrip
    \/ \E m \in MsfInputs : Invalid(m)
    \/ StatusCall
    \/ \E r \in IntResponses : StatusReturn(r)
    \/ DiscTypeCall
    \/ \E r \in IntResponses : DiscTypeReturn(r)
    \/ McnCall
    \/ \E r \in McnResponses : McnReturn(r)
    \/ TocHeaderCall
    \/ \E r \in HeaderResponses : TocHeaderReturn(r)
    \/ \E i \in TrackInputs, t \in FormatInputs : TocEntryCall(i, t)
    \/ \E r \in EntryResponses : TocEntryReturn(r)
    \/ \E l \in BOOLEAN : SetLockCall(l)
    \/ \E r \in IntResponses : SetLockReturn(r)
    \/ EjectCall
    \/ \E r \in IntResponses : EjectReturn(r)
    \/ CloseCall
    \/ \E r \in IntResponses : CloseReturn(r)
    \/ SubChannelCall
    \/ \E r \in SubChannelResponses : SubChannelReturn(r)
    \/ \E a \in AddrInputs, f \in FrameInputs : \E n \in AudioBufLens(f) : ReadAudioIntoCall(a, f, n)
    \/ \E r \in IntResponses : ReadAudioIntoReturn(r)
    \/ \E a \in AddrInputs, f \in FrameInputs : ReadAudioCall(a, f)
    \/ \E r \in IntResponses : ReadAudioReturn(r)
    \/ \E a \in AddrInputs, n \in RawBufLens : ReadRawIntoCall(a, n)
    \/ \E r \in RawResponses : ReadRawIntoReturn(r)
    \/ \E a \in AddrInputs, n \in RawBufLens : MainRsReadRawIntoCall(a, n)
    \/ \E r \in RawResponses, survives \in BOOLEAN : MainRsReadRawIntoReturn(r, survives)
    \/ MainTocHeader
    \/ MainUnwrap
    \/ MainTocEntry
    \/ MainNext
    \/ MainExit

Spec == Init /\ [][Next]_vars

(***************************************************************************)
(* Properties.                                                             *)
(***************************************************************************)
\* A logical address at or after sector 0 whose minute fits in one byte.
ValidLogical(x) == x >= 0 /\ (x + 150) \div (60 * 75) <= 255

\* A time code in the lead-in: the first two seconds of the disc.
LeadIn(m) == m.minute = 0 /\ m.second < 2

\* An address read_audio_into is specified to accept.
ValidAudioAddress(a) == a.tag = "Lba" \/ ~LeadIn(a.msf)

\* The operation named has ended, by returning or by aborting.
Ended(name) == op.name = name /\ pc \in {"done", "aborted"}

\* The operation has returned that CDRomError to its caller.
Returned(e) == pc = "done" /\ result.kind = "Err" /\ result.err = e

\* The kinds of the error taxonomy.
ErrorKinds ==
    {"Errno", "NoDisc", "NotAudioCD", "DoorLocked", "Unsupported", "Busy",
     "InvalidAddress", "InvalidBufferSize"}

\* C1: for every valid logical address x (0 <= x, minute fitting in a byte),
\* to_lba(from_lba(x)) = x.
C1_RoundTrip ==
    (Ended("round_trip") /\ ValidLogical(op.addr.lba))
        => (pc = "done" /\ result.val = op.addr.lba)

C1_Witness ==
    /\ Ended("round_trip")
    /\ ValidLogical(op.addr.lba)
    /\ op.addr.lba >= 4350
    /\ result.val = op.addr.lba

\* C2: invalid is true exactly for the time codes with minute = 0 and
\* second < 2, and read_raw_into and read_audio_into called with such a time
\* code return InvalidAddress and issue no device control call.
C2_LeadInRejected ==
    /\ Ended("invalid") => (result.val = LeadIn(op.addr.msf))
    /\ (op.name \in {"read_raw_into", "read_audio_into"}
        /\ op.addr.tag = "Msf" /\ LeadIn(op.addr.msf))
           => (Returned("InvalidAddress") /\ ncalls = 0 /\ inflight = <<>>)

\* C3: read_audio_into with a valid address, frames f in 1..75 and a buffer of
\* n < f * 2352 / 2 samples returns InvalidBufferSize(f * 2352 / 2, n) and
\* issues no device control call.
C3_BufferSizing ==
    (op.name = "read_audio_into" /\ ValidAudioAddress(op.addr)
     /\ op.frames \in 1..75 /\ op.buflen < (op.frames * 2352) \div 2)
        => /\ Returned("InvalidBufferSize")
           /\ result.a = (op.frames * 2352) \div 2
           /\ result.b = op.buflen
           /\ ncalls = 0
           /\ inflight = <<>>

\* C4: no audio-read device call is ever in flight with a frame count outside
\* 1..75; read_audio_into with frames outside 1..75 ends without a device
\* call and without success; with frames = 75, a valid address and at least
\* 75 * 2352 / 2 samples it issues the call with nframes = 75.
C4_FrameBounds ==
    /\ \A i \in 1..Len(inflight) :
          inflight[i].code = 21262 => inflight[i].arg.nframes \in 1..75
    /\ (op.name = "read_audio_into" /\ op.frames \notin 1..75)
          => (pc \in {"done", "aborted"} /\ result.kind \in {"Err", "Panic"}
              /\ ncalls = 0 /\ inflight = <<>>)
    /\ (op.name = "read_audio_into" /\ op.frames = 75 /\ ValidAudioAddress(op.addr)
        /\ op.buflen >= (75 * 2352) \div 2)
          => /\ ncalls = 1
             /\ result.kind # "Panic"
             /\ pc = "ioctl" => /\ Head(inflight).code = 21262
                                /\ Head(inflight).arg.nframes = 75

C4_Witness ==
    /\ pc = "ioctl"
    /\ op.name = "read_audio_into"
    /\ op.frames = 75
    /\ Head(inflight).arg.nframes = 75

\* C5: for every Operation, op_to_ioctl returns (0x53 << 8) + opcode without
\* panicking; for Eject that is 0x5309.
C5_ControlCode ==
    Ended("op_to_ioctl")
        => /\ pc = "done"
           /\ result.kind = "Ok"
           /\ result.val = 21248 + OperationValue[op.operation]
           /\ op.operation = "Eject" => result.val = 21257

C5_Witness == Ended("op_to_ioctl") /\ op.operation = "Eject" /\ result.val = 21257

\* The track indices f, f+1, ..., l-1 in ascending order.
TrackRange(f, l) == [i \in 1..(IF l > f THEN l - f ELSE 0) |-> f + (i - 1)]

\* C6: given the TOC header {first_track: f, last_track: l}, main passes to
\* toc_entry the indices f..l-1, each once, in ascending order, and no other;
\* for {1, 11} these are the ten tracks 1..10.
C6_TrackEnumeration ==
    /\ mainpc \in {"loop", "entry", "done"}
          => \E n \in 0..Len(TrackRange(header.first_track, header.last_track)) :
                queried = SubSeq(TrackRange(header.first_track, header.last_track), 1, n)
    /\ mainpc = "done" => queried = TrackRange(header.first_track, header.last_track)
    /\ (mainpc = "done" /\ header.first_track = 1 /\ header.last_track = 11)
          => queried = <<1, 2, 3, 4, 5, 6, 7, 8, 9, 10>>
    /\ (mainpc = "entry" /\ pc = "ioctl")
          => /\ Head(inflight).code = 21254
             /\ Head(inflight).arg.track = queried[Len(queried)]

C6_Witness ==
    /\ mainpc = "done"
    /\ header.first_track = 1
    /\ header.last_track = 11
    /\ Len(queried) = 10

\* C7: toc_header returns NoDisc when the device call fails with ENOMEDIUM,
\* returns every other failure of the device call as Errno carrying its code,
\* and returns a TocHeader only when the device call succeeded.
C7_TocHeaderErrors ==
    Ended("toc_header")
        => /\ (~reply.ok /\ reply.v = ENOMEDIUM) => Returned("NoDisc")
           /\ (~reply.ok /\ reply.v # ENOMEDIUM) => (Returned("Errno") /\ result.a = reply.v)
           /\ result.kind = "Ok" => reply.ok

\* C8: set_lock returns Busy when the device call fails with EBUSY, returns
\* Unsupported when the drive reports that it cannot do this (as the
\* operation-not-supported failure or as the sentinel value), and returns
\* success when the device call completes with any other value.
C8_SetLock ==
    Ended("set_lock")
        => /\ (~reply.ok /\ reply.v = EBUSY) => Returned("Busy")
           /\ (~reply.ok /\ reply.v = EOPNOTSUPP) => Returned("Unsupported")
           /\ (reply.ok /\ reply.v = EDRIVE_CANT_DO_THIS) => Returned("Unsupported")
           /\ (reply.ok /\ reply.v # EDRIVE_CANT_DO_THIS) => (pc = "done" /\ result.kind = "Ok")

\* C9: when the device control call of eject, close, subchannel or
\* read_raw_into fails with an OS failure code, the operation returns an
\* error of one kind of the taxonomy to its caller and does not abort.
C9_FailureReturned ==
    (op.name \in {"eject", "close", "subchannel", "read_raw_into"}
     /\ pc \in {"done", "aborted"} /\ ncalls = 1 /\ ~reply.ok)
        => (pc = "done" /\ result.kind = "Err" /\ result.err \in ErrorKinds)

\* C10: an invocation issues at most one device control call and never issues
\* it again after a failure; at most one call is in flight, and only while the
\* operation is blocked in it; a Busy or DoorLocked result is returned after
\* exactly one call.
C10_OneCall ==
    /\ ncalls <= 1
    /\ Len(inflight) <= 1
    /\ (pc = "ioctl") = (Len(inflight) = 1)
    /\ pc = "ioctl" => ncalls = 1
    /\ (Returned("Busy") \/ Returned("DoorLocked")) => (ncalls = 1 /\ inflight = <<>>)

C10_Witness == Ended("set_lock") /\ Returned("Busy") /\ ncalls = 1 /\ ~reply.ok

\* C11: the handle obtained by open is released exactly once, when the CDRom
\* is torn down: after teardown it is closed, it is never closed twice, and no
\* device control call is in flight on a released handle.
C11_ReleasedOnce ==
    /\ cdrom = "dropped" => (~drive_fd.open /\ drive_fd.closes = 1)
    /\ drive_fd.closes <= 1
    /\ ~drive_fd.open => (inflight = <<>> /\ pc # "ioctl")

\* C12: for every packed byte b the drive returns in a TOC entry or a
\* sub-channel response, the decoded adr and ctrl are the high and the low
\* nibble of b: both in 0..15 with adr * 16 + ctrl = b; 0x14 gives adr = 1,
\* ctrl = 4.
C12_NibbleDecode ==
    (op.name \in {"toc_entry", "subchannel"} /\ pc = "done" /\ result.kind = "Ok")
        => /\ result.val.adr \in 0..15
           /\ result.val.ctrl \in 0..15
           /\ result.val.adr * 16 + result.val.ctrl = reply.adr_ctrl
           /\ reply.adr_ctrl = 20 => (result.val.adr = 1 /\ result.val.ctrl = 4)

C12_Witness ==
    /\ op.name = "subchannel" /\ pc = "done" /\ result.kind = "Ok"
    /\ reply.adr_ctrl = 20
    /\ result.val.adr = 1
    /\ result.val.ctrl = 4

\* A logical address whose time code has a minute that fits in one byte.
InByteRange(x) == 0 <= x + 150 /\ x + 150 < 256 * 60 * 75

\* C13: to_lba(tc) = ((minute * 60 + second) * 75 + frame) - 150, and for every
\* logical address x with 0 <= x + 150 < 256 * 60 * 75, from_lba(x) has
\* minute = (x + 150) div 4500, second = ((x + 150) div 75) mod 60 and
\* frame = (x + 150) mod 75, with frame in 0..74, second in 0..59 and the
\* minute in one byte.
C13_FromLogical ==
    /\ Ended("to_lba")
          => result.val = ((op.addr.msf.minute * 60 + op.addr.msf.second) * 75
                           + op.addr.msf.frame) - 150
    /\ (Ended("from_lba") /\ InByteRange(op.addr.lba))
          => /\ pc = "done"
             /\ result.val.minute = (op.addr.lba + 150) \div 4500
             /\ result.val.second = ((op.addr.lba + 150) \div 75) % 60
             /\ result.val.frame = (op.addr.lba + 150) % 75
             /\ result.val.frame \in 0..74
             /\ result.val.second \in 0..59
             /\ result.val.minute \in 0..255

C13_Witness ==
    /\ Ended("from_lba")
    /\ op.addr.lba = 1151849
    /\ result.val = MsfOf(255, 59, 74)

\* An address read_raw_into is specified to accept: a time code outside the
\* lead-in, or a logical address at or after sector 0.
ValidRawAddress(a) == IF a.tag = "Msf" THEN ~LeadIn(a.msf) ELSE ValidLogical(a.lba)

\* C14: read_raw_into (of linux.rs and of main.rs) with a valid address and a
\* buffer of n < 2352 bytes returns InvalidBufferSize(2352, n) and issues no
\* device control call; with a valid address and at least 2352 bytes it issues
\* the call.
C14_RawBufferSizing ==
    (op.name \in {"read_raw_into", "main_rs_read_raw_into"} /\ ValidRawAddress(op.addr))
        => /\ op.buflen < 2352
                => /\ Returned("InvalidBufferSize")
                   /\ result.a = 2352
                   /\ result.b = op.buflen
                   /\ ncalls = 0
                   /\ inflight = <<>>
           /\ op.buflen >= 2352
                => /\ ncalls = 1
                   /\ pc = "ioctl" => Head(inflight).code = 21268

\* C15: for every code the drive-status call returns, status returns the
\* Status of that code when it is in 0..4 and None, without failing, for every
\* other code; disc_type does the same over {0, 100, 101, 102, 103, 104, 105}.
C15_StatusDecode ==
    /\ (Ended("status") /\ reply.ok)
          => /\ pc = "done"
             /\ reply.v \in 0..4 => (result.kind = "Some" /\ result.val = reply.v)
             /\ reply.v \notin 0..4 => result.kind = "None"
    /\ (Ended("disc_type") /\ reply.ok)
          => /\ pc = "done"
             /\ reply.v \in {0, 100, 101, 102, 103, 104, 105}
                   => (result.kind = "Some" /\ result.val = reply.v)
             /\ reply.v \notin {0, 100, 101, 102, 103, 104, 105} => result.kind = "None"

C15_Witness ==
    /\ Ended("status") /\ reply.ok /\ reply.v = 5
    /\ pc = "done"
    /\ result.kind = "None"

\* C16: when the device call completes, eject returns DoorLocked for the
\* value 2 (tray locked) and success for every other value; close returns
\* Unsupported for ENOSYS, DoorLocked for EBUSY and success for every other
\* value.
C16_TrayResults ==
    /\ (Ended("eject") /\ reply.ok)
          => /\ reply.v = 2 => Returned("DoorLocked")
             /\ reply.v # 2 => (pc = "done" /\ result.kind = "Ok")
    /\ (Ended("close") /\ reply.ok)
          => /\ reply.v = 38 => Returned("Unsupported")
             /\ reply.v = 16 => Returned("DoorLocked")
             /\ reply.v \notin {38, 16} => (pc = "done" /\ result.kind = "Ok")

C16_Witness == Ended("close") /\ reply.ok /\ reply.v = 16 /\ Returned("DoorLocked")

\* The variant named by a format discriminant.
VariantOf(format) == IF format = 1 THEN "Lba" ELSE "Msf"

\* C17: a decoded address has the variant named by the discriminant the
\* device returned: toc_entry yields Lba for 1 and Msf for 2; subchannel
\* decodes both its addresses by the one discriminant, so they have the same
\* variant; any other discriminant aborts the operation, yielding no value and
\* no typed error.
C17_AddressVariant ==
    /\ (Ended("toc_entry") /\ reply.ok /\ reply.format \in {1, 2})
          => /\ pc = "done" /\ result.kind = "Ok"
             /\ result.val.addr.tag = VariantOf(reply.format)
    /\ (Ended("subchannel") /\ reply.ok /\ reply.format \in {1, 2})
          => /\ pc = "done" /\ result.kind = "Ok"
             /\ result.val.absaddr.tag = VariantOf(reply.format)
             /\ result.val.reladdr.tag = result.val.absaddr.tag
    /\ (op.name \in {"toc_entry", "subchannel"} /\ pc \in {"done", "aborted"}
        /\ reply.ok /\ reply.format \notin {1, 2})
          => (pc = "aborted" /\ result.kind = "Panic")

C17_Witness ==
    /\ Ended("subchannel") /\ reply.ok /\ reply.format = 1
    /\ result.val.absaddr.tag = "Lba"
    /\ result.val.reladdr.tag = "Lba"

\* C18: once read_audio_into (alone or under read_audio) has issued its device
\* call, it returns success exactly when the call completed with status 0; a
\* nonzero status s is returned as the Errno decoded from s, and a failure of
\* the call is returned as its Errno.
C18_AudioStatus ==
    (op.name \in {"read_audio_into", "read_audio"} /\ pc \in {"done", "aborted"} /\ ncalls = 1)
        => /\ pc = "done"
           /\ (result.kind = "Ok") = (reply.ok /\ reply.v = 0)
           /\ (reply.ok /\ reply.v # 0)
                 => /\ Returned("Errno")
                    /\ reply.v \in 1..133 => result.a = reply.v
           /\ ~reply.ok => (Returned("Errno") /\ result.a = reply.v)

C18_Witness ==
    /\ Ended("read_audio_into") /\ ncalls = 1
    /\ reply.ok /\ reply.v = 5
    /\ Returned("Errno") /\ result.a = 5

\* The control code each operation of CDRom is specified to issue.
OwnCode ==
    [n \in {"eject", "close", "set_lock", "status", "disc_type", "toc_header", "toc_entry",
            "subchannel", "read_audio_into", "read_audio", "read_raw_into",
            "main_rs_read_raw_into", "mcn"} |->
        CASE n = "eject" -> 21257
          [] n = "close" -> 21273
          [] n = "set_lock" -> 21289
          [] n = "status" -> 21286
          [] n = "disc_type" -> 21287
          [] n = "toc_header" -> 21253
          [] n = "toc_entry" -> 21254
          [] n = "subchannel" -> 21259
          [] n \in {"read_audio_into", "read_audio"} -> 21262
          [] n \in {"read_raw_into", "main_rs_read_raw_into"} -> 21268
          [] n = "mcn" -> 21265]

\* C19: op_to_ioctl is injective over Operation: the code of an operation is
\* the code of no other; every code lies in 0x5301..0x5396; and every device
\* control call in flight carries the code of the operation that issued it.
C19_Injective ==
    /\ Ended("op_to_ioctl")
          => /\ result.kind = "Ok"
             /\ result.val \in 21249..21398
             /\ \A o \in Operation :
                   op_to_ioctl(o).val = result.val => o = op.operation
    /\ pc = "ioctl"
          => /\ op.name \in DOMAIN OwnCode
             /\ Head(inflight).code = OwnCode[op.name]

C19_Witness ==
    /\ pc = "ioctl"
    /\ op.name = "close"
    /\ Head(inflight).code = 21273

\* C20: for every logical x with 0 <= x + 150 < 256 * 60 * 75, read_raw_into
\* returns InvalidAddress without a device call exactly when x < 0;
\* read_audio_into never rejects a logical address as lead-in, and with its
\* other preconditions met it forwards the address, negative or not, to the
\* device as it is.
C20_LogicalValidation ==
    /\ (op.name = "read_raw_into" /\ op.addr.tag = "Lba" /\ InByteRange(op.addr.lba))
          => /\ (Returned("InvalidAddress") /\ ncalls = 0) = (op.addr.lba < 0)
             /\ Returned("InvalidAddress") => inflight = <<>>
    /\ (op.name = "read_audio_into" /\ op.addr.tag = "Lba")
          => /\ result.err \notin {"InvalidAddress", "MSF second cannot be less than 2!"}
             /\ (op.frames \in 1..75 /\ op.buflen >= (op.frames * 2352) \div 2)
                   => /\ ncalls = 1
                      /\ pc = "ioctl"
                            => /\ Head(inflight).arg.addr = op.addr
                               /\ Head(inflight).arg.addr_format = 1

C20_Witness ==
    /\ op.name = "read_raw_into"
    /\ op.addr = AddrLba(0 - 1)
    /\ Returned("InvalidAddress")
    /\ ncalls = 0

\* An address read_raw_into is specified to reject: a time code in the
\* lead-in, or one of the 150 logical sectors before sector 0.
LocallyInvalid(a) ==
    IF a.tag = "Msf" THEN LeadIn(a.msf) ELSE (InByteRange(a.lba) /\ a.lba < 0)

\* The minute, second and frame of an address read_raw_into accepts.
SeekBytes(a) ==
    IF a.tag = "Msf" THEN <<a.msf.minute, a.msf.second, a.msf.frame>>
    ELSE <<(a.lba + 150) \div 4500, ((a.lba + 150) \div 75) % 60, (a.lba + 150) % 75>>

\* C21: when read_raw_into returns InvalidAddress or InvalidBufferSize the
\* caller's buffer is as it was given and no device control call is made; the
\* minute, second and frame of the address are in the first three bytes of
\* the buffer only once both checks have passed, and are there when the call
\* is issued; an invalid address with an undersized buffer gives
\* InvalidAddress.
C21_RawFrameEffect ==
    op.name = "read_raw_into"
        => /\ (Returned("InvalidAddress") \/ Returned("InvalidBufferSize"))
                 => (buf = FreshBuf(op.buflen) /\ ncalls = 0 /\ inflight = <<>>)
           /\ buf # FreshBuf(op.buflen)
                 => (ncalls = 1 /\ ~LocallyInvalid(op.addr) /\ op.buflen >= 2352)
           /\ pc = "ioctl"
                 => /\ buf.head = SeekBytes(op.addr)
                    /\ buf.len = op.buflen
                    /\ Head(inflight).arg = buf
           /\ (LocallyInvalid(op.addr) /\ op.buflen < 2352) => Returned("InvalidAddress")

C21_Witness ==
    /\ op.name = "read_raw_into"
    /\ Returned("InvalidBufferSize")
    /\ op.buflen = 2351
    /\ buf = FreshBuf(2351)
    /\ ncalls = 0

====
